---- MODULE Spec2Model ----
(***************************************************************************)
(* Elemental Duo multiplayer server (server.js v3.0): the room table, the  *)
(* GameRoom class and the socket handlers of io.on('connection'), as a     *)
(* state machine.  Node runs every handler to completion on one thread, so *)
(* each handler is one atomic action.  Date.now() is the variable now.     *)
(*                                                                         *)
(* JavaScript strings are sequences of one-character strings.  A value     *)
(* that arrives from a client is a tagged record [t |-> "undefined"],      *)
(* [t |-> "string", s |-> <<...>>] or [t |-> "number", n |-> 7].           *)
(* socket.roomId / socket.playerName that were never assigned (undefined)  *)
(* are the empty sequence and socket.playerType is "none": the handlers    *)
(* only test them for truthiness.                                          *)
(***************************************************************************)
EXTENDS Integers, Sequences, FiniteSets, TLC

(***************************************************************************)
(* Bounds of the model.                                                    *)
(***************************************************************************)
BootTime == 100000       \* Date.now() when the process starts
MaxFine == 84            \* fine clock steps are taken up to BootTime + MaxFine
RoomHorizon == 110000    \* Spec: the clock stops at this time
MaxLevel == 2            \* nextLevel is not taken beyond this level
DeepLevel == 3           \* SpecLevels: nextLevel is not taken beyond this level

Conns == {1, 2, 3}       \* the sockets that ever connect

(***************************************************************************)
(* Program constants.                                                      *)
(***************************************************************************)
InputInterval == 50          \* playerInput rate limit (ms)
PositionInterval == 67       \* playerPosition rate limit (ms)
MaxX == 972                  \* 1000 - 28 (player width)
MaxY == 600
MaxNameLen == 20
MinRoomIdLen == 3
GracePeriod == 5000          \* delay of the empty-room cleanup timer
SocketTimeout == 300000      \* socket.timeout
SweepInterval == 300000      \* 5 * 60 * 1000
StaleThreshold == 600000     \* 10 * 60 * 1000
MaxVelX == 12                \* GameRoom.updatePlayerPosition: velX bound
MaxVelY == 20                \* GameRoom.updatePlayerPosition: velY bound

FineSteps == {17, 50}

(***************************************************************************)
(* JavaScript values and string functions.                                 *)
(***************************************************************************)
Undefined == [t |-> "undefined"]
Str(s) == [t |-> "string", s |-> s]
Num(n) == [t |-> "number", n |-> n]

\* (mutant: only undefined is falsy)
FalsyOnlyUndefined(v) == v.t = "undefined"

\* !v for the values a client can send
Falsy(v) ==
    \/ v.t = "undefined"
    \/ v.t = "string" /\ v.s = << >>
    \/ v.t = "number" /\ v.n = 0

LowerCase == <<"a","b","c","d","e","f","g","h","i","j","k","l","m",
               "n","o","p","q","r","s","t","u","v","w","x","y","z">>
UpperCase == <<"A","B","C","D","E","F","G","H","I","J","K","L","M",
               "N","O","P","Q","R","S","T","U","V","W","X","Y","Z">>
Digits == {"0","1","2","3","4","5","6","7","8","9"}
WhiteSpace == {" ", "\t", "\n"}

ToUpperChar(ch) ==
    IF \E i \in 1 .. 26 : LowerCase[i] = ch
    THEN UpperCase[CHOOSE i \in 1 .. 26 : LowerCase[i] = ch]
    ELSE ch

\* String.prototype.toUpperCase
ToUpperCase(s) == [i \in 1 .. Len(s) |-> ToUpperChar(s[i])]

IsAZ09(ch) == (\E i \in 1 .. 26 : UpperCase[i] = ch) \/ ch \in Digits

\* s.replace(/[^A-Z0-9]/g, '')
StripNonAlnum(s) == SelectSeq(s, IsAZ09)

\* (mutant: the id is not upper-cased before it is stripped)
CleanRoomIdKeepsCase(s) == StripNonAlnum(s)

\* roomId.toUpperCase().replace(/[^A-Z0-9]/g, '')
CleanRoomId(s) == StripNonAlnum(ToUpperCase(s))

RECURSIVE TrimStart(_)
TrimStart(s) ==
    IF s # << >> /\ Head(s) \in WhiteSpace THEN TrimStart(Tail(s)) ELSE s

RECURSIVE TrimEnd(_)
TrimEnd(s) ==
    IF s # << >> /\ s[Len(s)] \in WhiteSpace
    THEN TrimEnd(SubSeq(s, 1, Len(s) - 1))
    ELSE s

\* String.prototype.trim
Trim(s) == TrimEnd(TrimStart(s))

\* s.substring(0, n)
Substring0(s, n) == SubSeq(s, 1, IF Len(s) < n THEN Len(s) ELSE n)

\* playerName.trim().substring(0, 20)
CleanPlayerName(s) == Substring0(Trim(s), MaxNameLen)

Max(a, b) == IF a > b THEN a ELSE b
Min(a, b) == IF a < b THEN a ELSE b

\* Math.max(lo, Math.min(hi, v))
\* (mutant: only the upper bound is applied)
ClampUpperOnly(lo, hi, v) == Min(hi, v)

Clamp(lo, hi, v) == Max(lo, Min(hi, v))

(***************************************************************************)
(* Inputs the clients send.                                                *)
(***************************************************************************)
LongName == <<"M","a","x","i","m","i","l","i","a","n","u","s","-","t","h","e",
              "-","2","n","d","!","!">>

RawRoomIds ==
    { Str(<<"a","b","c">>), Str(<<"A","-","b","C">>),
      Str(<<"a","b","!","!"," ","c","1">>),
      Str(<<"a">>), Str(<<"a","!","?","b">>), Str(<< >>),
      Undefined, Num(7) }

RawNames ==
    { Str(<<"A","l">>), Str(<<" ","B","o"," ">>), Str(<<" "," ">>),
      Str(LongName), Str(<< >>), Undefined, Num(0) }

NoData == [t |-> "undefined"]
JoinData == { NoData } \cup
            { [t |-> "object", roomId |-> r, playerName |-> n] :
                  r \in RawRoomIds, n \in RawNames }

NoRoomId == << >>

NoPayload == [t |-> "undefined"]
InputPayloads == { NoPayload, [t |-> "object", keys |-> "left"] }

Pos(has, x, y, vx, vy) ==
    [t |-> "object", has |-> has, x |-> x, y |-> y, velX |-> vx, velY |-> vy]

AllFields == {"x", "y", "velX", "velY"}

PositionPayloads ==
    { NoPayload,
      Pos(AllFields, 500, 300, 5, 0 - 3),
      Pos(AllFields, 0 - 50, 700, 0 - 30, 50),
      Pos(AllFields, 9999, 0 - 5, 30, 0 - 50),
      Pos({}, 0, 0, 0, 0) }

\* positionData.f || 0
FieldOr0(p, f) == IF f \in p.has THEN p[f] ELSE 0

(***************************************************************************)
(* State.                                                                  *)
(***************************************************************************)
VARIABLES
    now,             \* Date.now()
    sockStatus,      \* per socket: "new", "connected" or "disconnected"
    sockRoomId,      \* socket.roomId
    sockPlayerType,  \* socket.playerType
    sockPlayerName,  \* socket.playerName
    sockTimeout,     \* socket.timeout: due time of the pending timer, 0 if none
    gameRooms,       \* the Map gameRooms: clean room id -> GameRoom
    graceTimers,     \* pending empty-room timers of the disconnect handler
    sweepDue,        \* next run of the stale-room interval
    emitted,         \* messages emitted by the last handler
    last,            \* history: the last step (handler, socket, the data the
                     \* client sent, and for joinRoom the socket's roomId before
                     \* it; ok: joined / payload present / a room was swept)
    burst,           \* history: the joins handled so far, while only joins were handled
    leftAt,          \* history: per registered room that lost an occupant and was
                     \* not joined since, the time it last lost one
    hist,            \* history, kept where a specification tracks it: per socket the
                     \* time of its last event that passed the rate limit, by kind, and
                     \* of its last playerPosition event that reached the forward loop
    sent             \* history, kept where a specification tracks it: per socket,
                     \* kind and receiver, the time the last event went out

vars == << now, sockStatus, sockRoomId, sockPlayerType, sockPlayerName,
           sockTimeout, gameRooms, graceTimers, sweepDue, emitted, last,
           burst, leftAt, hist, sent >>

sockVars == << sockStatus, sockRoomId, sockPlayerType, sockPlayerName, sockTimeout >>

(***************************************************************************)
(* class GameRoom.  A Map is a function whose domain is the set of keys.   *)
(* playerStates is written by addPlayer/removePlayer and read by nobody,   *)
(* so it is not part of the record.                                        *)
(***************************************************************************)
EmptyMap == [k \in {} |-> 0]

MapSet(m, k, v) == [j \in DOMAIN m \cup {k} |-> IF j = k THEN v ELSE m[j]]
MapDelete(m, k) == [j \in DOMAIN m \ {k} |-> m[j]]

NewGameRoom(t) ==
    [ players |-> EmptyMap, lastUpdate |-> EmptyMap, currentLevel |-> 1,
      createdAt |-> t, gameState |-> "waiting" ]

Size(room) == Cardinality(DOMAIN room.players)

AddPlayer(room, c, playerType) ==
    LET players == MapSet(room.players, c, playerType)
    IN  [ room EXCEPT
            !.players = players,
            !.lastUpdate = MapSet(room.lastUpdate, c, 0),
            !.gameState = IF Cardinality(DOMAIN players) = 2
                          THEN "playing" ELSE room.gameState ]

\* (mutant: removePlayer does not delete the player)
RemovePlayerKeepsPlayer(room, c) ==
    [ room EXCEPT
        !.lastUpdate = MapDelete(room.lastUpdate, c),
        !.gameState = IF Cardinality(DOMAIN room.players) < 2
                      THEN "waiting" ELSE room.gameState ]

\* (mutant: removePlayer leaves gameState alone)
RemovePlayerKeepsState(room, c) ==
    [ room EXCEPT
        !.players = MapDelete(room.players, c),
        !.lastUpdate = MapDelete(room.lastUpdate, c) ]

RemovePlayer(room, c) ==
    LET players == MapDelete(room.players, c)
    IN  [ room EXCEPT
            !.players = players,
            !.lastUpdate = MapDelete(room.lastUpdate, c),
            !.gameState = IF Cardinality(DOMAIN players) < 2
                          THEN "waiting" ELSE room.gameState ]

IsFull(room) == Size(room) >= 2

\* (mutant: any player counts as a player of the type)
HasPlayerTypeAnyPlayer(room, type) == DOMAIN room.players # {}

HasPlayerType(room, type) ==
    \E c \in DOMAIN room.players : room.players[c] = type

Emit(c, event, data) == [to |-> c, event |-> event, data |-> data]

\* the data of an event emitted without arguments
NoArgs == [args |-> 0]

\* (mutant: excludeSocket is ignored)
BroadcastToRoomUnfiltered(room, event, data, excluded) ==
    { Emit(c, event, data) : c \in DOMAIN room.players }

\* excluded is a socket, or 0 for excludeSocket = null
BroadcastToRoom(room, event, data, excluded) ==
    { Emit(c, event, data) : c \in DOMAIN room.players \ {excluded} }

\* (mutant: the loop does not skip the sender)
ForwardToAll(room, c, event, data) ==
    { Emit(o, event, data) : o \in DOMAIN room.players }

\* the forward loops of the playerInput and playerPosition handlers
ForwardToOthers(room, c, event, data) ==
    { Emit(o, event, data) : o \in DOMAIN room.players \ {c} }

\* room.lastUpdate.get(socket.id) || 0
LastUpdateOf(room, c) ==
    IF c \in DOMAIN room.lastUpdate THEN room.lastUpdate[c] ELSE 0

(***************************************************************************)
(* History of the joins handled since the start, kept only while nothing   *)
(* but connections, clock steps and well-formed joins of distinct sockets  *)
(* to one room id has happened.                                            *)
(***************************************************************************)
Last(op, c, ok) ==
    [op |-> op, conn |-> c, ok |-> ok, prev |-> NoRoomId, raw |-> NoData]

\* leftAt after a step that leaves the room table rooms
LeftAfter(rooms) ==
    LET before(k) == IF k \in DOMAIN gameRooms
                     THEN DOMAIN gameRooms[k].players ELSE {}
        after(k) == DOMAIN rooms[k].players
        lost(k) == before(k) \ after(k) # {}
        gained(k) == after(k) \ before(k) # {}
    IN  [ k \in { j \in DOMAIN rooms :
                     lost(j) \/ (j \in DOMAIN leftAt /\ ~gained(j)) }
            |-> IF lost(k) THEN now ELSE leftAt[k] ]

NoHist == [playerInput |-> 0, playerPosition |-> 0, forwarded |-> 0]

\* the time socket c's last event of each kind went out to each socket, 0
\* when none did; kept over the joins of c
NoSent == [playerInput |-> [p \in Conns |-> 0],
           playerPosition |-> [p \in Conns |-> 0]]

BurstStart ==
    [ ok |-> TRUE, id |-> NoRoomId, joiners |-> {}, assigned |-> {},
      full |-> {} ]

BurstBroken ==
    [ ok |-> FALSE, id |-> NoRoomId, joiners |-> {}, assigned |-> {},
      full |-> {} ]

BurstAfterJoin(c, id, event) ==
    IF burst.ok /\ burst.id \in {NoRoomId, id} /\ c \notin burst.joiners
       /\ event \in {"playerAssigned", "roomFull"}
    THEN [ ok |-> TRUE, id |-> id,
           joiners |-> burst.joiners \cup {c},
           assigned |-> burst.assigned \cup
                        (IF event = "playerAssigned" THEN {c} ELSE {}),
           full |-> burst.full \cup (IF event = "roomFull" THEN {c} ELSE {}) ]
    ELSE BurstBroken

(***************************************************************************)
(* Initial state: the process has started, no socket has connected, the    *)
(* room table is empty and the stale-room interval is armed.               *)
(***************************************************************************)
Init ==
    /\ now = BootTime
    /\ sockStatus = [c \in Conns |-> "new"]
    /\ sockRoomId = [c \in Conns |-> NoRoomId]
    /\ sockPlayerType = [c \in Conns |-> "none"]
    /\ sockPlayerName = [c \in Conns |-> << >>]
    /\ sockTimeout = [c \in Conns |-> 0]
    /\ gameRooms = EmptyMap
    /\ graceTimers = {}
    /\ sweepDue = BootTime + SweepInterval
    /\ emitted = {}
    /\ last = Last("boot", 0, TRUE)
    /\ burst = BurstStart
    /\ leftAt = EmptyMap
    /\ hist = [c \in Conns |-> NoHist]
    /\ sent = [c \in Conns |-> NoSent]

(***************************************************************************)
(* io.on('connection'): a socket connects and its 5 minute timer is armed. *)
(***************************************************************************)
Connect(c) ==
    /\ sockStatus[c] = "new"
    /\ sockStatus' = [sockStatus EXCEPT ![c] = "connected"]
    /\ sockTimeout' = [sockTimeout EXCEPT ![c] = now + SocketTimeout]
    /\ emitted' = {}
    /\ last' = Last("connection", c, TRUE)
    /\ UNCHANGED << now, sockRoomId, sockPlayerType, sockPlayerName,
                    gameRooms, graceTimers, sweepDue, burst, leftAt, hist, sent >>

(***************************************************************************)
(* socket.on('joinRoom').  JoinResult is the handler as a function of the  *)
(* state: the room table it leaves, whether the socket was added, and the  *)
(* messages it emits.                                                      *)
(***************************************************************************)
ErrorMsg(c, text) == Emit(c, "error", [message |-> text])

\* (mutant: a refused join is not answered)
JoinFailedSilent(c, rooms, msg) ==
    [ rooms |-> rooms, joined |-> FALSE, id |-> NoRoomId, playerType |-> "none",
      name |-> << >>, reply |-> msg.event, out |-> {} ]

JoinFailed(c, rooms, msg) ==
    [ rooms |-> rooms, joined |-> FALSE, id |-> NoRoomId, playerType |-> "none",
      name |-> << >>, reply |-> msg.event, out |-> {msg} ]

\* (mutant: a new GameRoom is registered whether or not the id is known)
ResolveRoomAlwaysNew(id) == MapSet(gameRooms, id, NewGameRoom(now))

\* "let room = gameRooms.get(cleanRoomId); if (!room) { ... }": the room
\* table after the lookup
ResolveRoom(id) ==
    IF id \notin DOMAIN gameRooms
    THEN MapSet(gameRooms, id, NewGameRoom(now))
    ELSE gameRooms

\* (mutant: the previous room is not left)
LeavePreviousSkipped(rooms, c) == rooms

\* "Leave previous room if any"
LeavePrevious(rooms, c) ==
    LET old == sockRoomId[c]
    IN  IF old # NoRoomId /\ old \in DOMAIN rooms
        THEN [rooms EXCEPT ![old] = RemovePlayer(@, c)]
        ELSE rooms

\* (mutant: the first branch tests the wrong type)
AssignPlayerTypeWrongTest(room) ==
    IF ~HasPlayerType(room, "water") THEN "fire"
    ELSE IF ~HasPlayerType(room, "fire") THEN "water"
    ELSE "none"

\* (mutant: water is assigned first)
AssignPlayerTypeWaterFirst(room) ==
    IF ~HasPlayerType(room, "water") THEN "water"
    ELSE IF ~HasPlayerType(room, "fire") THEN "fire"
    ELSE "none"

\* "Assign player type"; "none" is the assignment error branch
AssignPlayerType(room) ==
    IF ~HasPlayerType(room, "fire") THEN "fire"
    ELSE IF ~HasPlayerType(room, "water") THEN "water"
    ELSE "none"

\* (mutant: the previous room is left before the room is tested for full)
JoinCleanLeavesFirst(c, id, name) ==
    LET rooms1 == ResolveRoom(id)
        rooms2 == LeavePrevious(rooms1, c)
        playerType == AssignPlayerType(rooms2[id])
        rooms3 == [rooms2 EXCEPT ![id] = AddPlayer(@, c, playerType)]
        room == rooms3[id]
    IN  IF IsFull(rooms2[id])
        THEN [JoinFailed(c, rooms2, Emit(c, "roomFull", NoArgs)) EXCEPT !.id = id]
        ELSE [ rooms |-> rooms3, joined |-> TRUE, id |-> id,
               playerType |-> playerType, name |-> name,
               reply |-> "playerAssigned",
               out |-> { Emit(c, "playerAssigned",
                              [ playerType |-> playerType, roomId |-> id,
                                playersCount |-> Size(room),
                                playerName |-> name ]) }
                       \cup BroadcastToRoom(room, "playerJoined",
                              [ playerType |-> playerType,
                                playersCount |-> Size(room),
                                playerName |-> name, roomId |-> id ], c) ]

\* the part of the handler after the room id and the name are cleaned
JoinClean(c, id, name) ==
    LET rooms1 == ResolveRoom(id)
        rooms2 == LeavePrevious(rooms1, c)
        playerType == AssignPlayerType(rooms2[id])
        rooms3 == [rooms2 EXCEPT ![id] = AddPlayer(@, c, playerType)]
        room == rooms3[id]
    IN  IF IsFull(rooms1[id])
        THEN [JoinFailed(c, rooms1, Emit(c, "roomFull", NoArgs)) EXCEPT !.id = id]
        ELSE IF playerType = "none"
        THEN [JoinFailed(c, rooms2, Emit(c, "roomFull", NoArgs)) EXCEPT !.id = id]
        ELSE [ rooms |-> rooms3, joined |-> TRUE, id |-> id,
               playerType |-> playerType, name |-> name,
               reply |-> "playerAssigned",
               out |-> { Emit(c, "playerAssigned",
                              [ playerType |-> playerType, roomId |-> id,
                                playersCount |-> Size(room),
                                playerName |-> name ]) }
                       \cup BroadcastToRoom(room, "playerJoined",
                              [ playerType |-> playerType,
                                playersCount |-> Size(room),
                                playerName |-> name, roomId |-> id ], c) ]

JoinResult(c, data) ==
    IF data.t = "undefined"
    THEN \* destructuring undefined throws; the catch block answers
         JoinFailed(c, gameRooms,
                    ErrorMsg(c, "Failed to join room. Please try again."))
    ELSE IF \/ Falsy(data.roomId) \/ Falsy(data.playerName)
            \/ data.roomId.t # "string" \/ data.playerName.t # "string"
    THEN JoinFailed(c, gameRooms, ErrorMsg(c, "Invalid room ID or player name"))
    ELSE LET cleanRoomId == CleanRoomId(data.roomId.s)
             cleanPlayerName == CleanPlayerName(data.playerName.s)
         IN  IF Len(cleanRoomId) < MinRoomIdLen
             THEN JoinFailed(c, gameRooms,
                     ErrorMsg(c, "Room ID must be at least 3 characters"))
             ELSE JoinClean(c, cleanRoomId, cleanPlayerName)

\* Only a connected socket sends joinRoom: it is the request that opens a
\* client's session and the client waits for its answer.
JoinRoom(c, data) ==
    /\ sockStatus[c] = "connected"
    /\ \E r \in {JoinResult(c, data)} :
           /\ gameRooms' = r.rooms
           /\ emitted' = r.out
           /\ sockRoomId' = IF r.joined THEN [sockRoomId EXCEPT ![c] = r.id]
                            ELSE sockRoomId
           /\ sockPlayerType' = IF r.joined
                                THEN [sockPlayerType EXCEPT ![c] = r.playerType]
                                ELSE sockPlayerType
           /\ sockPlayerName' = IF r.joined
                                THEN [sockPlayerName EXCEPT ![c] = r.name]
                                ELSE sockPlayerName
           /\ last' = [op |-> "joinRoom", conn |-> c, ok |-> r.joined,
                       prev |-> sockRoomId[c], raw |-> data]
           /\ burst' = BurstAfterJoin(c, r.id, r.reply)
           /\ leftAt' = LeftAfter(r.rooms)
           /\ hist' = IF r.joined THEN [hist EXCEPT ![c] = NoHist] ELSE hist
           /\ UNCHANGED sent
    /\ UNCHANGED << now, sockStatus, sockTimeout, graceTimers, sweepDue >>

(***************************************************************************)
(* socket.on('disconnect'), run for a client disconnect and, through       *)
(* socket.disconnect(), for the socket's 5 minute timer.                   *)
(***************************************************************************)
DisconnectHandler(c, op) ==
    LET id == sockRoomId[c]
        inRoom == id # NoRoomId /\ id \in DOMAIN gameRooms
        room == RemovePlayer(gameRooms[id], c)
    IN  /\ sockStatus' = [sockStatus EXCEPT ![c] = "disconnected"]
        /\ sockTimeout' = [sockTimeout EXCEPT ![c] = 0]
        /\ IF inRoom
           THEN /\ gameRooms' = [gameRooms EXCEPT ![id] = room]
                /\ emitted' = BroadcastToRoom(room, "playerLeft",
                                 [ playerType |-> sockPlayerType[c],
                                   playersCount |-> Size(room),
                                   playerName |-> sockPlayerName[c] ], 0)
                /\ graceTimers' =
                      IF Size(room) = 0
                      THEN graceTimers \cup
                           {[sock |-> c, due |-> now + GracePeriod]}
                      ELSE graceTimers
           ELSE /\ emitted' = {}
                /\ UNCHANGED << gameRooms, graceTimers >>
        /\ last' = Last(op, c, TRUE)
        /\ burst' = BurstBroken
        /\ leftAt' = LeftAfter(gameRooms')
        /\ UNCHANGED << now, sockRoomId, sockPlayerType, sockPlayerName,
                        sweepDue, hist, sent >>

Disconnect(c) ==
    /\ sockStatus[c] = "connected"
    /\ DisconnectHandler(c, "disconnect")

\* (mutant: the timer marks the socket disconnected and runs no cleanup)
SocketTimeoutFiresNoCleanup(c) ==
    /\ sockStatus[c] = "connected"
    /\ sockTimeout[c] # 0
    /\ now >= sockTimeout[c]
    /\ sockStatus' = [sockStatus EXCEPT ![c] = "disconnected"]
    /\ sockTimeout' = [sockTimeout EXCEPT ![c] = 0]
    /\ emitted' = {}
    /\ last' = Last("socketTimeout", c, TRUE)
    /\ burst' = BurstBroken
    /\ UNCHANGED << now, sockRoomId, sockPlayerType, sockPlayerName, gameRooms,
                    graceTimers, sweepDue, leftAt, hist, sent >>

SocketTimeoutFires(c) ==
    /\ sockStatus[c] = "connected"
    /\ sockTimeout[c] # 0
    /\ now >= sockTimeout[c]
    /\ DisconnectHandler(c, "socketTimeout")

(***************************************************************************)
(* socket.on('playerInput') and socket.on('playerPosition').  The socket   *)
(* object and its handlers outlive the disconnect handler, and the fields  *)
(* socket.roomId and socket.playerType are the handlers' only guard, so an *)
(* event of a socket that was in flight when its disconnect was handled is *)
(* processed by the same code.                                             *)
(***************************************************************************)
\* RelayResult: the room table and the messages after a relayed event of
\* kind event with the given minimum interval; data is the forwarded payload
\* (mutant: an event exactly one interval after the last one is rejected too)
RateLimitedInclusive(room, c, interval) == now - LastUpdateOf(room, c) <= interval

\* "if (now - lastUpdate < 50) return" / "if (now - lastUpdate < 67) return"
RateLimited(room, c, interval) == now - LastUpdateOf(room, c) < interval

RelayResult(c, event, interval, payload, data) ==
    LET id == sockRoomId[c]
        room == gameRooms[id]
        stamped == [gameRooms EXCEPT
                      ![id].lastUpdate = MapSet(room.lastUpdate, c, now)]
    IN  IF id = NoRoomId \/ sockPlayerType[c] = "none"
        THEN [rooms |-> gameRooms, out |-> {}]
        ELSE IF id \notin DOMAIN gameRooms
        THEN [rooms |-> gameRooms, out |-> {}]
        ELSE IF RateLimited(room, c, interval)
        THEN [rooms |-> gameRooms, out |-> {}]
        ELSE IF payload.t = "undefined"
        THEN \* reading a property of undefined throws after lastUpdate.set
             [rooms |-> stamped, out |-> {}]
        ELSE [rooms |-> stamped,
              out |-> ForwardToOthers(room, c, event, data)]

InputForward(c, payload) ==
    [ playerType |-> sockPlayerType[c],
      keys |-> IF payload.t = "object" THEN payload.keys ELSE "",
      timestamp |-> now ]

PositionUpdate(c, payload) ==
    IF payload.t = "object"
    THEN [ playerType |-> sockPlayerType[c],
           x |-> Clamp(0, MaxX, FieldOr0(payload, "x")),
           y |-> Clamp(0, MaxY, FieldOr0(payload, "y")),
           velX |-> FieldOr0(payload, "velX"),
           velY |-> FieldOr0(payload, "velY"),
           timestamp |-> now ]
    ELSE [ playerType |-> sockPlayerType[c], x |-> 0, y |-> 0,
           velX |-> 0, velY |-> 0, timestamp |-> now ]

\* the payload of an event that is sent without arguments
NoArguments == [t |-> "object"]

Relay(c, op, result, payload) ==
    /\ sockStatus[c] # "new"
    /\ \E r \in {result} :
          /\ gameRooms' = r.rooms
          /\ emitted' = r.out
          /\ leftAt' = LeftAfter(r.rooms)
    /\ last' = [Last(op, c, payload.t = "object") EXCEPT !.raw = payload]
    /\ burst' = BurstBroken
    /\ UNCHANGED << now, sockVars, graceTimers, sweepDue >>

PlayerInput(c, payload) ==
    Relay(c, "playerInput",
          RelayResult(c, "playerInput", InputInterval, payload,
                      InputForward(c, payload)),
          payload)

PlayerPosition(c, payload) ==
    Relay(c, "playerPosition",
          RelayResult(c, "playerPosition", PositionInterval, payload,
                      PositionUpdate(c, payload)),
          payload)

(***************************************************************************)
(* socket.on('levelComplete' / 'restartLevel' / 'nextLevel').              *)
(***************************************************************************)
\* (mutant: currentLevel is not counted up)
LevelResultLevelKept(c, event, gameState, levels) ==
    LET id == sockRoomId[c]
        room == gameRooms[id]
    IN  IF id = NoRoomId \/ id \notin DOMAIN gameRooms
        THEN [rooms |-> gameRooms, out |-> {}]
        ELSE [rooms |-> [gameRooms EXCEPT ![id].gameState = gameState],
              out |-> BroadcastToRoom(room, event, NoArgs, c)]

LevelResult(c, event, gameState, levels) ==
    LET id == sockRoomId[c]
        room == gameRooms[id]
    IN  IF id = NoRoomId \/ id \notin DOMAIN gameRooms
        THEN [rooms |-> gameRooms, out |-> {}]
        ELSE [rooms |-> [gameRooms EXCEPT
                           ![id].currentLevel = room.currentLevel + levels,
                           ![id].gameState = gameState],
              out |-> BroadcastToRoom(room, event, NoArgs, c)]

LevelComplete(c) ==
    Relay(c, "levelComplete", LevelResult(c, "levelComplete", "complete", 0),
          NoArguments)

RestartLevel(c) ==
    Relay(c, "restartLevel", LevelResult(c, "restartLevel", "playing", 0),
          NoArguments)

\* nextLevel, taken while the room's level is below cap
NextLevelUpTo(c, cap) ==
    /\ IF sockRoomId[c] \in DOMAIN gameRooms
       THEN gameRooms[sockRoomId[c]].currentLevel < cap
       ELSE TRUE
    /\ Relay(c, "nextLevel", LevelResult(c, "nextLevel", "playing", 1),
             NoArguments)

NextLevel(c) == NextLevelUpTo(c, MaxLevel)

(***************************************************************************)
(* Timers.  A timer that is due runs before the clock moves on; handlers   *)
(* of events that arrive in the same millisecond may run before it.        *)
(***************************************************************************)
\* (mutant: the callback deletes the room it was scheduled for unseen)
GraceCleanupUnchecked(id) ==
    IF id \in DOMAIN gameRooms THEN MapDelete(gameRooms, id) ELSE gameRooms

\* "const room = gameRooms.get(socket.roomId);
\*  if (room && room.players.size === 0) gameRooms.delete(socket.roomId)"
GraceCleanup(id) ==
    IF id \in DOMAIN gameRooms /\ Size(gameRooms[id]) = 0
    THEN MapDelete(gameRooms, id)
    ELSE gameRooms

\* the setTimeout callback of the disconnect handler, for socket t.sock
GraceTimerFires(t) ==
    /\ t \in graceTimers
    /\ now >= t.due
    /\ gameRooms' = GraceCleanup(sockRoomId[t.sock])
    /\ graceTimers' = graceTimers \ {t}
    /\ emitted' = {}
    /\ last' = Last("graceTimer", t.sock, TRUE)
    /\ burst' = BurstBroken
    /\ leftAt' = LeftAfter(gameRooms')
    /\ UNCHANGED << now, sockVars, sweepDue, hist, sent >>

\* (mutant: the sweep finds no room stale)
IsStaleNever(room, t) == FALSE

\* (mutant: the sweep does not look at the number of players)
IsStaleWhateverSize(room, t) == t - room.createdAt > StaleThreshold

\* the "Cleanup stale rooms" setInterval callback
IsStale(room, t) == Size(room) = 0 /\ t - room.createdAt > StaleThreshold

SweepStale ==
    /\ now >= sweepDue
    /\ gameRooms' = [id \in {k \in DOMAIN gameRooms : ~IsStale(gameRooms[k], now)}
                        |-> gameRooms[id]]
    /\ sweepDue' = sweepDue + SweepInterval
    /\ emitted' = {}
    /\ last' = Last("sweep", 0, gameRooms' # gameRooms)
    /\ burst' = BurstBroken
    /\ leftAt' = LeftAfter(gameRooms')
    /\ UNCHANGED << now, sockVars, graceTimers, hist, sent >>

Deadlines ==
    {t.due : t \in graceTimers}
        \cup {sockTimeout[c] : c \in {k \in Conns : sockTimeout[k] # 0}}
        \cup {sweepDue}

NothingDue == \A d \in Deadlines : d > now

\* the clock advances by a fine step ...
TickFine(d) ==
    /\ NothingDue
    /\ now + d <= BootTime + MaxFine
    /\ \A dl \in Deadlines : now + d <= dl
    /\ now' = now + d
    /\ emitted' = {}
    /\ last' = Last("tick", 0, TRUE)
    /\ UNCHANGED << sockVars, gameRooms, graceTimers, sweepDue, burst, leftAt,
                    hist, sent >>

\* ... or to the next moment a timer is due, up to a horizon
TickToDeadline(horizon) ==
    /\ NothingDue
    /\ \E dl \in Deadlines :
          /\ \A o \in Deadlines : dl <= o
          /\ dl <= horizon
          /\ now' = dl
    /\ emitted' = {}
    /\ last' = Last("tick", 0, TRUE)
    /\ UNCHANGED << sockVars, gameRooms, graceTimers, sweepDue, burst, leftAt,
                    hist, sent >>

(***************************************************************************)
(* The history of accepted events.  A specification either tracks it for   *)
(* the step it takes or leaves it alone.  An event passed the rate limit   *)
(* exactly when the handler stamped lastUpdate, which changes the room     *)
(* table (two events in the same millisecond are never both stamped).      *)
(***************************************************************************)
Track(c, kind) ==
    /\ hist' = IF gameRooms' # gameRooms
               THEN [hist EXCEPT
                       ![c][kind] = now,
                       ![c].forwarded = IF kind = "playerPosition" /\ last'.ok
                                        THEN now ELSE @]
               ELSE hist
    /\ UNCHANGED sent

\* the step records the messages of kind that went out, and nothing else
TrackSent(c, kind) ==
    /\ sent' = [sent EXCEPT ![c][kind] =
                   [p \in Conns |->
                       IF \E m \in emitted' : m.to = p THEN now ELSE @[p]]]
    /\ UNCHANGED hist

Untracked == UNCHANGED << hist, sent >>

(***************************************************************************)
(* Spec: rooms and their occupants.  Sockets connect, join one of two      *)
(* rooms (ABC under two spellings, ABC1), disconnect, and the empty-room   *)
(* timers run.                                                             *)
(***************************************************************************)
ValidName == Str(<<"A","l">>)
RawABC == Str(<<"a","b","c">>)
RawABCVariant == Str(<<"A","-","b","C">>)
RawABC1 == Str(<<"a","b","!","!"," ","c","1">>)

JoinDataFor(rawIds) ==
    { [t |-> "object", roomId |-> r, playerName |-> ValidName] : r \in rawIds }

RoomJoinData == JoinDataFor({RawABC, RawABCVariant, RawABC1})

Next ==
    \/ \E c \in Conns : Connect(c)
    \/ \E c \in Conns, data \in RoomJoinData : JoinRoom(c, data)
    \/ \E c \in Conns : Disconnect(c)
    \/ \E t \in graceTimers : GraceTimerFires(t)
    \/ TickToDeadline(RoomHorizon)

Spec == Init /\ [][Next]_vars

(***************************************************************************)
(* SpecEvents: the five relayed events.  Sockets 1 and 2 use room ABC,     *)
(* socket 3 uses room ABC1; every socket sends every event, also after its *)
(* disconnect was handled.  The clock stands still: of two events of a     *)
(* socket the first passes the rate limit and the second does not.         *)
(***************************************************************************)
PlainPosition == Pos(AllFields, 500, 300, 5, 0 - 3)
PlainInput == [t |-> "object", keys |-> "left"]

NextEvents ==
    \/ \E c \in Conns : Connect(c)
    \/ \E c \in {1, 2}, data \in JoinDataFor({RawABC}) : JoinRoom(c, data)
    \/ \E c \in {3}, data \in JoinDataFor({RawABC1}) : JoinRoom(c, data)
    \/ \E c \in Conns : Disconnect(c)
    \/ \E c \in Conns, p \in {NoPayload, PlainInput} :
          PlayerInput(c, p) /\ Untracked
    \/ \E c \in Conns, p \in {NoPayload, PlainPosition} :
          PlayerPosition(c, p) /\ Untracked
    \/ \E c \in Conns : LevelComplete(c) /\ Untracked
    \/ \E c \in Conns : RestartLevel(c) /\ Untracked
    \/ \E c \in Conns : NextLevel(c) /\ Untracked

SpecEvents == Init /\ [][NextEvents]_vars

(***************************************************************************)
(* SpecRate: the rate limit.  Sockets 1 and 2 use room ABC; socket 1 sends *)
(* playerInput and playerPosition events while the clock advances in fine  *)
(* steps, and the history of its accepted events is tracked.               *)
(***************************************************************************)
Senders == {1}

NextRate ==
    \/ \E c \in {1, 2} : Connect(c)
    \/ \E c \in {1, 2}, data \in JoinDataFor({RawABC}) : JoinRoom(c, data)
    \/ \E c \in {1, 2} : Disconnect(c)
    \/ \E c \in Senders, p \in {NoPayload, PlainInput} :
          PlayerInput(c, p) /\ Track(c, "playerInput")
    \/ \E c \in Senders, p \in {NoPayload, PlainPosition} :
          PlayerPosition(c, p) /\ Track(c, "playerPosition")
    \/ \E d \in FineSteps : TickFine(d)

SpecRate == Init /\ [][NextRate]_vars

(***************************************************************************)
(* SpecLife: the life of a room.  Sockets 1 and 2 join rooms ABC and ABC1, *)
(* move between them, send levelComplete and disconnect or are cut off by  *)
(* their 5 minute timer; the empty-room timers and the stale-room sweep    *)
(* run; the clock advances from deadline to deadline over three sweeps.    *)
(***************************************************************************)
LifeConns == {1, 2}
LifeHorizon == BootTime + 3 * SweepInterval

NextLife ==
    \/ \E c \in LifeConns : Connect(c)
    \/ \E c \in LifeConns, data \in JoinDataFor({RawABC, RawABC1}) :
          JoinRoom(c, data)
    \/ \E c \in LifeConns : Disconnect(c)
    \/ \E c \in LifeConns : SocketTimeoutFires(c)
    \/ \E c \in LifeConns : LevelComplete(c) /\ Untracked
    \/ \E t \in graceTimers : GraceTimerFires(t)
    \/ SweepStale
    \/ TickToDeadline(LifeHorizon)

SpecLife == Init /\ [][NextLife]_vars

(***************************************************************************)
(* SpecRejoin: the rate limit over joins.  Socket 2 joins room ABC; socket *)
(* 1 joins rooms ABC and ABC1, moves between them and sends playerInput    *)
(* and playerPosition events while the clock advances in fine steps, and   *)
(* the time each kind last went out to each socket is tracked.             *)
(***************************************************************************)
NextRejoin ==
    \/ \E c \in LifeConns : Connect(c)
    \/ \E c \in Senders, data \in JoinDataFor({RawABC, RawABC1}) :
          JoinRoom(c, data)
    \/ \E c \in LifeConns \ Senders, data \in JoinDataFor({RawABC}) :
          JoinRoom(c, data)
    \/ \E c \in Senders : PlayerInput(c, PlainInput) /\ TrackSent(c, "playerInput")
    \/ \E c \in Senders :
          PlayerPosition(c, PlainPosition) /\ TrackSent(c, "playerPosition")
    \/ \E d \in FineSteps : TickFine(d)

SpecRejoin == Init /\ [][NextRejoin]_vars

(***************************************************************************)
(* SpecIdle: traffic and the socket timer.  Sockets 1 and 2 join room ABC, *)
(* send playerInput events and disconnect or are cut off by their 5 minute *)
(* timer; the empty-room timers and the sweep run; the clock advances from *)
(* deadline to deadline over two sweeps.                                   *)
(***************************************************************************)
IdleHorizon == BootTime + 2 * SweepInterval

NextIdle ==
    \/ \E c \in LifeConns : Connect(c)
    \/ \E c \in LifeConns, data \in JoinDataFor({RawABC}) : JoinRoom(c, data)
    \/ \E c \in LifeConns : Disconnect(c)
    \/ \E c \in LifeConns : SocketTimeoutFires(c)
    \/ \E c \in LifeConns : PlayerInput(c, PlainInput) /\ Untracked
    \/ \E t \in graceTimers : GraceTimerFires(t)
    \/ SweepStale
    \/ TickToDeadline(IdleHorizon)

SpecIdle == Init /\ [][NextIdle]_vars

(***************************************************************************)
(* SpecLeak: the end of a room.  Sockets 1 and 2 connect when the server   *)
(* starts, join rooms ABC and ABC1, move between them and disconnect or are *)
(* cut off by their 5 minute timer.  The timers of the server are fair: a  *)
(* timer that is due fires, and the clock advances from deadline to        *)
(* deadline, over four sweeps: a room created by a socket that connected   *)
(* at the start is older than the stale threshold at the fourth.           *)
(***************************************************************************)
LeakHorizon == BootTime + 4 * SweepInterval

NextLeak ==
    \/ \E c \in LifeConns : now = BootTime /\ Connect(c)
    \/ \E c \in LifeConns, data \in JoinDataFor({RawABC, RawABC1}) :
          JoinRoom(c, data)
    \/ \E c \in LifeConns : Disconnect(c)
    \/ \E c \in LifeConns : SocketTimeoutFires(c)
    \/ \E t \in graceTimers : GraceTimerFires(t)
    \/ SweepStale
    \/ TickToDeadline(LeakHorizon)

TimersFire ==
    /\ WF_vars(\E c \in LifeConns : SocketTimeoutFires(c))
    /\ WF_vars(\E t \in graceTimers : GraceTimerFires(t))
    /\ WF_vars(SweepStale)
    /\ WF_vars(TickToDeadline(LeakHorizon))

SpecLeak == Init /\ [][NextLeak]_vars /\ TimersFire

(***************************************************************************)
(* SpecLevels: phase and level of a room.  Sockets 1 and 2 join rooms ABC  *)
(* and ABC1, move between them, send every relayed event, also after      *)
(* their disconnect was handled, and disconnect.  The clock stands still.  *)
(***************************************************************************)
NextLevels ==
    \/ \E c \in LifeConns : Connect(c)
    \/ \E c \in LifeConns, data \in JoinDataFor({RawABC, RawABC1}) :
          JoinRoom(c, data)
    \/ \E c \in LifeConns : Disconnect(c)
    \/ \E c \in LifeConns : PlayerInput(c, PlainInput) /\ Untracked
    \/ \E c \in LifeConns : PlayerPosition(c, PlainPosition) /\ Untracked
    \/ \E c \in LifeConns : LevelComplete(c) /\ Untracked
    \/ \E c \in LifeConns : RestartLevel(c) /\ Untracked
    \/ \E c \in LifeConns : NextLevelUpTo(c, DeepLevel) /\ Untracked

SpecLevels == Init /\ [][NextLevels]_vars

(***************************************************************************)
(* SpecClamp: the playerPosition payloads.  Sockets 1 and 2 join room ABC  *)
(* and send playerPosition with every payload while the clock advances in  *)
(* fine steps.                                                             *)
(***************************************************************************)
NextClamp ==
    \/ \E c \in LifeConns : Connect(c)
    \/ \E c \in LifeConns, data \in JoinDataFor({RawABC}) : JoinRoom(c, data)
    \/ \E c \in LifeConns, p \in PositionPayloads :
          PlayerPosition(c, p) /\ Untracked
    \/ \E d \in FineSteps : TickFine(d)

SpecClamp == Init /\ [][NextClamp]_vars

(***************************************************************************)
(* SpecJoin: the validation of joinRoom.  Sockets 1 and 2 send joinRoom    *)
(* without data, with every raw room id and a valid name, with every raw   *)
(* name and a valid room id, or with neither field, and disconnect.        *)
(***************************************************************************)
JoinInputs ==
    { d \in JoinData :
         \/ d = NoData
         \/ d.playerName = ValidName
         \/ d.roomId = RawABC
         \/ d.roomId = Undefined /\ d.playerName = Undefined }

NextJoin ==
    \/ \E c \in LifeConns : Connect(c)
    \/ \E c \in LifeConns, data \in JoinInputs : JoinRoom(c, data)
    \/ \E c \in LifeConns : Disconnect(c)

SpecJoin == Init /\ [][NextJoin]_vars

(***************************************************************************)
(* Properties.                                                             *)
(***************************************************************************)
Occupants(id) == DOMAIN gameRooms[id].players

RoomsOf(c) == {id \in DOMAIN gameRooms : c \in Occupants(id)}

\* C1: every room has 0, 1 or 2 occupants; and when nothing but joins of n
\* distinct sockets to one room id has been handled, that id is the one
\* registered room, min(n, 2) of the joins were answered playerAssigned, the
\* other n - min(n, 2) roomFull, and the assigned sockets are its occupants.
C1_OccupancyAndJoinBurst ==
    /\ \A id \in DOMAIN gameRooms : Size(gameRooms[id]) \in {0, 1, 2}
    /\ (burst.ok /\ burst.joiners # {}) =>
          LET n == Cardinality(burst.joiners)
          IN  /\ DOMAIN gameRooms = {burst.id}
              /\ Cardinality(burst.assigned) = Min(n, 2)
              /\ Cardinality(burst.full) = n - Min(n, 2)
              /\ Occupants(burst.id) = burst.assigned

\* three sockets have each sent one join for the same id: one was refused
C1_Witness ==
    /\ burst.ok
    /\ Cardinality(burst.joiners) = 3
    /\ Cardinality(burst.full) = 1

\* C2: in every room the occupants hold fire or water, and two occupants of
\* a room never hold the same role.
C2_RoleUniqueness ==
    \A id \in DOMAIN gameRooms :
        LET players == gameRooms[id].players
        IN  /\ \A c \in DOMAIN players : players[c] \in {"fire", "water"}
            /\ \A c, d \in DOMAIN players : c # d => players[c] # players[d]

\* a room holds two occupants, the second of which has just joined
C2_Witness ==
    /\ last.op = "joinRoom" /\ last.ok
    /\ \E id \in DOMAIN gameRooms :
          Size(gameRooms[id]) = 2 /\ last.conn \in Occupants(id)

\* C3: a socket occupies at most one room; after a successful join of a
\* socket that occupied another room, it is no longer an occupant there.
C3_SingleRoom ==
    /\ \A c \in Conns : Cardinality(RoomsOf(c)) <= 1
    /\ (last.op = "joinRoom" /\ last.ok /\ last.prev \in DOMAIN gameRooms
           /\ last.prev # sockRoomId[last.conn])
          => last.conn \notin Occupants(last.prev)

\* a socket that occupied one room has joined the other one
C3_Witness ==
    /\ last.op = "joinRoom" /\ last.ok
    /\ last.prev \in DOMAIN gameRooms
    /\ last.prev # sockRoomId[last.conn]
    /\ last.conn \in Occupants(sockRoomId[last.conn])

\* C4: a successful join gives the socket fire exactly when no other
\* occupant of the target room held fire when the join was handled, and
\* water otherwise; the role is stored in the room and on the socket.
C4_RoleAssignment ==
    [][ (last'.op = "joinRoom" /\ last'.ok) =>
          LET c == last'.conn
              id == sockRoomId'[c]
              fireHeld == /\ id \in DOMAIN gameRooms
                          /\ \E o \in Occupants(id) \ {c} :
                                gameRooms[id].players[o] = "fire"
              role == IF fireHeld THEN "water" ELSE "fire"
          IN  /\ sockPlayerType'[c] = role
              /\ gameRooms'[id].players[c] = role ]_vars

\* a socket has joined a room whose only occupant held water, and got fire
C4_Witness ==
    /\ last.op = "joinRoom" /\ last.ok
    /\ sockPlayerType[last.conn] = "fire"
    /\ \E o \in Occupants(sockRoomId[last.conn]) \ {last.conn} :
          gameRooms[sockRoomId[last.conn]].players[o] = "water"

RelayedEvents ==
    {"playerInput", "playerPosition", "levelComplete", "restartLevel", "nextLevel"}

RateLimitedEvents == {"playerInput", "playerPosition"}

Receivers == {m.to : m \in emitted}

\* the other occupants of the room recorded on socket c
Peers(c) ==
    IF sockRoomId[c] \in DOMAIN gameRooms
    THEN Occupants(sockRoomId[c]) \ {c}
    ELSE {}

IsOccupant(c) == sockRoomId[c] \in DOMAIN gameRooms /\ c \in Occupants(sockRoomId[c])

\* C5: the messages of a relayed event go to all the other occupants of the
\* sender's room or (when the event was dropped or rate limited) to nobody;
\* never to the sender, never to a socket that occupies another room; they
\* carry the event's name and, for playerInput and playerPosition, the
\* sender's role; a level event always reaches all the other occupants.
C5_ForwardingExclusion ==
    last.op \in RelayedEvents =>
        LET c == last.conn
        IN  /\ Receivers \in {{}, Peers(c)}
            /\ c \notin Receivers
            /\ \A o \in Receivers : RoomsOf(o) = {sockRoomId[c]}
            /\ \A m \in emitted :
                  /\ m.event = last.op
                  /\ last.op \in RateLimitedEvents =>
                        /\ m.data.playerType = sockPlayerType[c]
                        /\ IsOccupant(c) =>
                              m.data.playerType = gameRooms[sockRoomId[c]].players[c]
            /\ last.op \notin RateLimitedEvents => Receivers = Peers(c)

\* an occupant's playerPosition event was forwarded to its peer while a
\* third socket occupied the other room
C5_Witness ==
    /\ last.op = "playerPosition"
    /\ IsOccupant(last.conn)
    /\ Receivers # {}
    /\ \E o \in Conns \ (Receivers \cup {last.conn}) : RoomsOf(o) # {}

\* C6: a playerInput (50 ms) or playerPosition (67 ms) event of an occupant
\* is rejected exactly when now - lastUpdate[socket] is less than the
\* interval of its kind: then nothing is emitted and the room table is
\* unchanged; otherwise lastUpdate[socket] becomes now and a well-formed
\* event is forwarded to the other occupants.
C6_RateLimit ==
    [][ (last'.op \in RateLimitedEvents /\ IsOccupant(last'.conn)) =>
          LET c == last'.conn
              id == sockRoomId[c]
              interval == IF last'.op = "playerInput"
                          THEN InputInterval ELSE PositionInterval
              delta == now - gameRooms[id].lastUpdate[c]
          IN  IF delta < interval
              THEN emitted' = {} /\ gameRooms' = gameRooms
              ELSE /\ gameRooms'[id].lastUpdate[c] = now
                   /\ last'.ok => {m.to : m \in emitted'} = Peers(c) ]_vars

\* a playerPosition event was accepted exactly 67 ms after the socket's
\* previous accepted event
C6_Witness ==
    /\ last.op = "playerPosition"
    /\ IsOccupant(last.conn)
    /\ last.ok
    /\ hist[last.conn].playerPosition = now
    /\ hist[last.conn].playerInput = now - PositionInterval

\* the step is an event of kind op of an occupant whose history is tracked
TrackedEvent(op) ==
    /\ last'.op = op
    /\ last'.conn \in Senders
    /\ IsOccupant(last'.conn)

\* the event of this step passed the rate limit
Accepted ==
    LET c == last'.conn
        id == sockRoomId[c]
    IN  gameRooms'[id].lastUpdate[c] = now /\ gameRooms[id].lastUpdate[c] # now

\* C7: a playerPosition event is accepted exactly when at least 67 ms have
\* passed since the socket's last accepted playerPosition event, and a
\* playerInput event exactly when at least 50 ms have passed since its last
\* accepted playerInput event.
C7_IndependentLimits ==
    [][ /\ TrackedEvent("playerPosition") =>
            (Accepted <=>
               now - hist[last'.conn].playerPosition >= PositionInterval)
        /\ TrackedEvent("playerInput") =>
            (Accepted <=>
               now - hist[last'.conn].playerInput >= InputInterval) ]_vars

\* C8: for an occupant that has had no playerInput event accepted, a
\* well-formed playerPosition event is forwarded exactly when at least 67 ms
\* have passed since its previously forwarded one (the first one always).
C8_GreedySelection ==
    [][ ( /\ TrackedEvent("playerPosition")
          /\ last'.ok
          /\ hist[last'.conn].playerInput = 0 ) =>
            (Accepted <=>
               now - hist[last'.conn].forwarded >= PositionInterval) ]_vars

\* socket c has no room or no role, or its disconnect has been handled
WithoutSession(c) ==
    \/ sockRoomId[c] = NoRoomId
    \/ sockPlayerType[c] = "none"
    \/ sockStatus[c] = "disconnected"

\* C9: a playerInput or playerPosition event of a socket without a room or
\* role, or whose disconnect has been handled, emits nothing and leaves the
\* room table unchanged.
C9_DroppedWithoutSession ==
    [][ (last'.op \in RateLimitedEvents /\ WithoutSession(last'.conn)) =>
            (emitted' = {} /\ gameRooms' = gameRooms) ]_vars

\* C10: a room whose gameState is playing has exactly 2 occupants.
C10_PlayingMeansFull ==
    \A id \in DOMAIN gameRooms :
        gameRooms[id].gameState = "playing" => Size(gameRooms[id]) = 2

(***************************************************************************)
(* Phase, level and life of a room.                                        *)
(***************************************************************************)
\* the rooms registered before and after the step
Kept == DOMAIN gameRooms \cap DOMAIN gameRooms'

OccupantsAfter(id) == DOMAIN gameRooms'[id].players

\* the step removed an occupant from room id
LostOccupant(id) == Occupants(id) \ OccupantsAfter(id) # {}

\* the step brought room id to 2 occupants
Filled(id) ==
    /\ last'.op = "joinRoom"
    /\ Cardinality(OccupantsAfter(id)) = 2
    /\ Cardinality(Occupants(id)) < 2

\* C11: a room that loses an occupant, through a disconnect or through the
\* occupant's join of another room, has gameState waiting after the step; a
\* room that a join brings to 2 occupants has gameState playing after it.
C11_PhaseAfterLeaveAndFill ==
    [][ \A id \in Kept :
          /\ LostOccupant(id) => gameRooms'[id].gameState = "waiting"
          /\ Filled(id) => gameRooms'[id].gameState = "playing" ]_vars

\* a socket moved out of a room with 2 occupants (playing or complete until
\* then) into another room; the room it left is waiting with the occupant
\* that stayed
C11_Witness ==
    /\ last.op = "joinRoom"
    /\ last.ok
    /\ last.prev \in DOMAIN gameRooms
    /\ last.prev # sockRoomId[last.conn]
    /\ Size(gameRooms[last.prev]) = 1
    /\ gameRooms[last.prev].gameState = "waiting"
    /\ IsOccupant(last.conn)

\* C12: gameState changes only from waiting to playing by the join that
\* fills the second slot, to waiting by a step that removes an occupant,
\* from playing to complete by levelComplete, and from complete to playing
\* by restartLevel or nextLevel.
C12_PhaseTransitions ==
    [][ \A id \in Kept :
          LET from == gameRooms[id].gameState
              to == gameRooms'[id].gameState
          IN  from # to =>
                \/ from = "waiting" /\ to = "playing" /\ Filled(id)
                \/ to = "waiting" /\ LostOccupant(id)
                \/ from = "playing" /\ to = "complete"
                      /\ last'.op = "levelComplete"
                \/ from = "complete" /\ to = "playing"
                      /\ last'.op \in {"restartLevel", "nextLevel"} ]_vars

\* C13: a room is registered with currentLevel 1; while it is registered its
\* currentLevel never decreases, a nextLevel event of one of its occupants
\* adds exactly 1 to it and leaves the other rooms' levels alone, and a step
\* of any other kind leaves every room's currentLevel unchanged.
C13_CurrentLevel ==
    [][ /\ \A id \in DOMAIN gameRooms' \ DOMAIN gameRooms :
              gameRooms'[id].currentLevel = 1
        /\ \A id \in Kept :
              LET before == gameRooms[id].currentLevel
                  after == gameRooms'[id].currentLevel
                  c == last'.conn
              IN  /\ after >= before
                  /\ (last'.op = "nextLevel" /\ IsOccupant(c)) =>
                        after = IF id = sockRoomId[c] THEN before + 1 ELSE before
                  /\ last'.op # "nextLevel" => after = before ]_vars

\* two nextLevel events of an occupant's room took it from level 1 to 3
C13_Witness ==
    /\ last.op = "nextLevel"
    /\ IsOccupant(last.conn)
    /\ gameRooms[sockRoomId[last.conn]].currentLevel = 3
    /\ \E id \in DOMAIN gameRooms : gameRooms[id].currentLevel = 1

\* C14: when a restartLevel or nextLevel event of an occupant follows
\* directly on the same event of an occupant of the same room, it leaves the
\* room's currentLevel and gameState as the first one left them.
C14_IdempotentTriggers ==
    [][ ( /\ last'.op \in {"restartLevel", "nextLevel"}
          /\ last.op = last'.op
          /\ IsOccupant(last.conn)
          /\ IsOccupant(last'.conn)
          /\ sockRoomId[last.conn] = sockRoomId[last'.conn] ) =>
            LET id == sockRoomId[last'.conn]
            IN  /\ gameRooms'[id].currentLevel = gameRooms[id].currentLevel
                /\ gameRooms'[id].gameState = gameRooms[id].gameState ]_vars

\* C15: a registered room without occupants lost its last occupant no more
\* than the grace period (5000 ms) ago: once the grace period has elapsed
\* without a join, the room is no longer registered.
C15_EmptyRoomRemovedAfterGrace ==
    \A id \in DOMAIN gameRooms :
        Size(gameRooms[id]) = 0 =>
            id \in DOMAIN leftAt /\ now <= leftAt[id] + GracePeriod

\* C16: when an empty-room timer fires while the room of its socket has an
\* occupant, the room table is left as it is; a timer never removes or
\* changes a room that has an occupant.
C16_GraceTimerChecksAtFire ==
    [][ last'.op = "graceTimer" =>
          LET id == sockRoomId[last'.conn]
          IN  /\ (id \in DOMAIN gameRooms /\ Size(gameRooms[id]) >= 1) =>
                    gameRooms' = gameRooms
              /\ \A k \in DOMAIN gameRooms :
                    Size(gameRooms[k]) >= 1 =>
                        k \in DOMAIN gameRooms' /\ gameRooms'[k] = gameRooms[k]
        ]_vars

\* a timer fired for a room that was joined again after it was scheduled
C16_Witness ==
    /\ last.op = "graceTimer"
    /\ sockRoomId[last.conn] \in DOMAIN gameRooms
    /\ Size(gameRooms[sockRoomId[last.conn]]) >= 1

\* C17: a step removes only rooms without occupants; the stale-room sweep
\* removes exactly the rooms that have no occupant and were created more
\* than 10 minutes ago, and leaves the other rooms as they are.
C17_OnlyEmptyRoomsRemoved ==
    [][ /\ \A id \in DOMAIN gameRooms \ DOMAIN gameRooms' :
              Size(gameRooms[id]) = 0
        /\ last'.op = "sweep" =>
              /\ DOMAIN gameRooms' =
                    { id \in DOMAIN gameRooms :
                         ~ ( /\ Size(gameRooms[id]) = 0
                             /\ now - gameRooms[id].createdAt > StaleThreshold ) }
              /\ \A id \in DOMAIN gameRooms' : gameRooms'[id] = gameRooms[id]
        ]_vars

\* a sweep has run over an occupied room that is older than 10 minutes
C17_Witness ==
    /\ last.op = "sweep"
    /\ \E id \in DOMAIN gameRooms :
          /\ Size(gameRooms[id]) >= 1
          /\ now - gameRooms[id].createdAt > StaleThreshold

\* the one occupant of a room of size 1
TheOccupant(room) == CHOOSE a \in DOMAIN room.players : TRUE

\* room id holds the fire player alone after the water player disconnected
\* from it, and nobody joined it since
WaterLeftFire(id) ==
    /\ id \in DOMAIN leftAt
    /\ Size(gameRooms[id]) = 1
    /\ gameRooms[id].players[TheOccupant(gameRooms[id])] = "fire"
    /\ \E b \in Conns :
          /\ sockStatus[b] = "disconnected"
          /\ sockRoomId[b] = id
          /\ sockPlayerType[b] = "water"

\* C18 as stated (its last part): after the second player (water) has
\* disconnected from a room in which the first (fire) stays, and no join
\* followed, the room is no longer registered once the grace period is over.
C18_ScenarioRoomDeleted ==
    \A id \in DOMAIN gameRooms :
        WaterLeftFire(id) => now <= leftAt[id] + GracePeriod

AssignedMsg(c, playerType, id, count) ==
    Emit(c, "playerAssigned",
         [ playerType |-> playerType, roomId |-> id, playersCount |-> count,
           playerName |-> sockPlayerName'[c] ])

JoinedMsg(a, c, playerType, id, count) ==
    Emit(a, "playerJoined",
         [ playerType |-> playerType, playersCount |-> count,
           playerName |-> sockPlayerName'[c], roomId |-> id ])

LeftMsg(a, c, playerType, count) ==
    Emit(a, "playerLeft",
         [ playerType |-> playerType, playersCount |-> count,
           playerName |-> sockPlayerName[c] ])

\* C18 (amended): the first join of a room is answered with playerAssigned
\* (fire, 1 player); the second with playerAssigned (water, 2 players) while
\* the first player gets playerJoined (water, 2 players) and the room is
\* playing; when one of two players disconnects the other gets playerLeft
\* (the role that left, 1 player), the room is waiting, stays registered and
\* no timer is scheduled; a room with an occupant is never removed; when the
\* last player disconnects the room stays registered and a timer is
\* scheduled 5000 ms ahead, which removes the room if it is empty then.
C18_Scenario ==
    [][ LET c == last'.conn
        IN  /\ (last'.op = "joinRoom" /\ last'.ok) =>
                  LET id == sockRoomId'[c]
                  IN  /\ id \notin DOMAIN gameRooms =>
                            emitted' = {AssignedMsg(c, "fire", id, 1)}
                      /\ ( /\ id \in DOMAIN gameRooms
                           /\ Size(gameRooms[id]) = 1
                           /\ c \notin Occupants(id)
                           /\ HasPlayerType(gameRooms[id], "fire") ) =>
                            /\ emitted' =
                                  { AssignedMsg(c, "water", id, 2),
                                    JoinedMsg(TheOccupant(gameRooms[id]), c,
                                              "water", id, 2) }
                            /\ gameRooms'[id].gameState = "playing"
            /\ (last'.op \in {"disconnect", "socketTimeout"} /\ IsOccupant(c)) =>
                  LET id == sockRoomId[c]
                      role == gameRooms[id].players[c]
                  IN  /\ id \in DOMAIN gameRooms'
                      /\ OccupantsAfter(id) = Occupants(id) \ {c}
                      /\ gameRooms'[id].gameState = "waiting"
                      /\ IF Size(gameRooms[id]) = 2
                         THEN /\ emitted' =
                                   { LeftMsg(a, c, role, 1) :
                                        a \in Occupants(id) \ {c} }
                              /\ graceTimers' = graceTimers
                         ELSE /\ emitted' = {}
                              /\ graceTimers' = graceTimers \cup
                                   {[sock |-> c, due |-> now + GracePeriod]}
            /\ \A id \in DOMAIN gameRooms :
                  Size(gameRooms[id]) >= 1 => id \in DOMAIN gameRooms'
            /\ ( /\ last'.op = "graceTimer"
                 /\ sockRoomId[c] \in DOMAIN gameRooms
                 /\ Size(gameRooms[sockRoomId[c]]) = 0 ) =>
                  sockRoomId[c] \notin DOMAIN gameRooms' ]_vars

\* the water player has just disconnected: the fire player got playerLeft
\* (water, 1 player) and is alone in the registered, waiting room, for which
\* no timer is pending
C18_Witness ==
    /\ last.op = "disconnect"
    /\ sockPlayerType[last.conn] = "water"
    /\ WaterLeftFire(sockRoomId[last.conn])
    /\ gameRooms[sockRoomId[last.conn]].gameState = "waiting"
    /\ graceTimers = {}
    /\ \E m \in emitted :
          /\ m.event = "playerLeft"
          /\ m.data.playerType = "water"
          /\ m.data.playersCount = 1
          /\ m.to = TheOccupant(gameRooms[sockRoomId[last.conn]])

(***************************************************************************)
(* The validation of joinRoom.                                             *)
(***************************************************************************)
\* s with every letter upper-cased and every character outside A-Z and 0-9
\* deleted, character by character
RECURSIVE NormalForm(_)
NormalForm(s) ==
    IF s = << >> THEN << >>
    ELSE LET u == ToUpperChar(Head(s))
         IN  (IF IsAZ09(u) THEN <<u>> ELSE << >>) \o NormalForm(Tail(s))

\* a field of the join data that is missing, empty or not a string
BadField(v) == IF v.t = "string" THEN v.s = << >> ELSE TRUE

\* join data with a room id and a name that are non-empty strings
WellTyped(d) ==
    IF d.t = "object" THEN ~BadField(d.roomId) /\ ~BadField(d.playerName)
    ELSE FALSE

JoinEvents == {"playerAssigned", "playerJoined", "roomFull"}

\* C19: a joinRoom with a string room id and name works on the room whose
\* key is the raw id upper-cased and stripped of every character outside
\* A-Z and 0-9 ("ab!! c1" gives ABC1): that room is looked up or created and
\* a socket that joins is recorded under that key.  When the key is shorter
\* than 3 characters the caller gets an error, the room table is unchanged
\* and the caller keeps its room and role.
C19_RoomIdNormalized ==
    /\ NormalForm(RawABC1.s) = <<"A", "B", "C", "1">>
    /\ [][ (last'.op = "joinRoom" /\ WellTyped(last'.raw)) =>
             LET c == last'.conn
                 id == NormalForm(last'.raw.roomId.s)
             IN  IF Len(id) < MinRoomIdLen
                 THEN /\ emitted' =
                           {ErrorMsg(c, "Room ID must be at least 3 characters")}
                      /\ gameRooms' = gameRooms
                      /\ UNCHANGED << sockRoomId, sockPlayerType, sockPlayerName >>
                 ELSE /\ DOMAIN gameRooms' = DOMAIN gameRooms \cup {id}
                      /\ \A m \in emitted' : m.event \in JoinEvents
                      /\ last'.ok =>
                            /\ sockRoomId'[c] = id
                            /\ c \in OccupantsAfter(id) ]_vars

\* a socket that sent the room id "A-bC" is the second occupant of room ABC
C19_Witness ==
    /\ last.op = "joinRoom"
    /\ last.ok
    /\ last.raw.roomId = RawABCVariant
    /\ <<"A", "B", "C">> \in DOMAIN gameRooms
    /\ Occupants(<<"A", "B", "C">>) = LifeConns

\* C20: a joinRoom without data, or with a room id or a name that is
\* missing, empty or not a string, sends one error message to the caller and
\* nothing to anybody else, and leaves the room table (rooms, occupants,
\* roles, gameState, lastUpdate), the sockets' rooms, roles and names and
\* the timers unchanged.
C20_InvalidJoinChangesNothing ==
    [][ (last'.op = "joinRoom" /\ ~WellTyped(last'.raw)) =>
          LET c == last'.conn
          IN  /\ gameRooms' = gameRooms
              /\ UNCHANGED << sockRoomId, sockPlayerType, sockPlayerName,
                              graceTimers >>
              /\ ~last'.ok
              /\ \E m \in emitted' :
                    /\ emitted' = {m}
                    /\ m.to = c
                    /\ m.event = "error"
                    /\ last'.raw.t = "object" =>
                          m = ErrorMsg(c, "Invalid room ID or player name") ]_vars

\* a socket that shares a room with another one sent a join with a bad
\* field and got the error
C20_Witness ==
    /\ last.op = "joinRoom"
    /\ last.raw.t = "object"
    /\ ~WellTyped(last.raw)
    /\ IsOccupant(last.conn)
    /\ Size(gameRooms[sockRoomId[last.conn]]) = 2
    /\ emitted = {ErrorMsg(last.conn, "Invalid room ID or player name")}

\* the messages of the last step that went to socket c
SentTo(c) == {m \in emitted : m.to = c}

\* C21: a joinRoom sends the caller exactly one message, which is
\* playerAssigned, roomFull or error, and playerAssigned exactly when the
\* socket was added to a room.  playerAssigned carries the role stored for
\* the caller in the room and the number of players of the room after the
\* join; every other occupant of that room gets exactly one message, a
\* playerJoined with the same role and number, and nobody else gets any.  A
\* refused join sends nothing but its answer.
C21_JoinReplies ==
    last.op = "joinRoom" =>
        LET c == last.conn
            id == sockRoomId[c]
        IN  /\ Cardinality(SentTo(c)) = 1
            /\ \A m \in SentTo(c) :
                  /\ m.event \in {"playerAssigned", "roomFull", "error"}
                  /\ last.ok <=> m.event = "playerAssigned"
                  /\ last.ok =>
                        /\ IsOccupant(c)
                        /\ m.data.playerType = gameRooms[id].players[c]
                        /\ m.data.playersCount = Size(gameRooms[id])
                        /\ Receivers = Occupants(id)
                        /\ \A o \in Occupants(id) \ {c} :
                              SentTo(o) =
                                 { Emit(o, "playerJoined",
                                        [ playerType |-> gameRooms[id].players[c],
                                          playersCount |-> Size(gameRooms[id]),
                                          playerName |-> m.data.playerName,
                                          roomId |-> id ]) }
            /\ ~last.ok => Receivers = {c}

\* the second player of a room was assigned water and the first was told
C21_Witness ==
    /\ last.op = "joinRoom"
    /\ last.ok
    /\ Size(gameRooms[sockRoomId[last.conn]]) = 2
    /\ \E m \in emitted : m.event = "playerJoined" /\ m.data.playerType = "water"

(***************************************************************************)
(* The forwarded position.                                                 *)
(***************************************************************************)
\* field f of payload p limited to 0 .. hi, 0 when the field is missing
Limited(p, f, hi) ==
    IF f \notin p.has THEN 0
    ELSE IF p[f] < 0 THEN 0
    ELSE IF p[f] > hi THEN hi
    ELSE p[f]

PositionMessages == {m \in emitted : m.event = "playerPosition"}

\* C22: every message that forwards a playerPosition event with a payload
\* carries the payload's x limited to 0 .. 972 and its y limited to 0 .. 600,
\* and 0 for a missing x or y; x = -50 is forwarded as 0 and x = 9999 as 972.
C22_PositionClamped ==
    (last.op = "playerPosition" /\ last.ok) =>
        \A m \in emitted :
            /\ m.data.x = Limited(last.raw, "x", MaxX)
            /\ m.data.y = Limited(last.raw, "y", MaxY)
            /\ m.data.x \in 0 .. MaxX
            /\ m.data.y \in 0 .. MaxY
            /\ ("x" \in last.raw.has /\ last.raw.x = 0 - 50) => m.data.x = 0
            /\ ("x" \in last.raw.has /\ last.raw.x = 9999) => m.data.x = 972

\* a position with x = 9999 and y = -5 was forwarded as (972, 0)
C22_Witness ==
    /\ last.op = "playerPosition"
    /\ last.ok
    /\ last.raw.x = 9999
    /\ \E m \in emitted : m.data.x = 972 /\ m.data.y = 0

\* C23: every forwarded playerPosition message carries velX in -12 .. 12 and
\* velY in -20 .. 20.
C23_VelocityClamped ==
    \A m \in PositionMessages :
        /\ m.data.velX \in (0 - MaxVelX) .. MaxVelX
        /\ m.data.velY \in (0 - MaxVelY) .. MaxVelY

(***************************************************************************)
(* The rate-limit map and failing handlers.                                *)
(***************************************************************************)
\* C24: in every room the keys of lastUpdate are exactly the sockets that
\* occupy the room.
C24_LastUpdateKeys ==
    \A id \in DOMAIN gameRooms :
        DOMAIN gameRooms[id].lastUpdate = DOMAIN gameRooms[id].players

\* C25: a playerInput or playerPosition event without a payload, whose
\* handler throws, emits nothing and leaves the room table, the sender's
\* lastUpdate entry included, unchanged.
C25_FailedEventDropped ==
    [][ (last'.op \in RateLimitedEvents /\ ~last'.ok) =>
            (emitted' = {} /\ gameRooms' = gameRooms) ]_vars

(***************************************************************************)
(* The socket timeout and the consistency of the registry.                 *)
(***************************************************************************)
\* C26: a socket's timer is set to 5 minutes after its connection and stays
\* so while it is connected, and no socket is connected beyond that time, so
\* a socket that was silent for 5 minutes has been disconnected; when the
\* timer fires the socket is disconnected with the cleanup of a client
\* disconnect: it is removed from its room, the remaining occupant gets
\* playerLeft with its role and the new count, and the empty-room timer is
\* scheduled when the room became empty.
C26_IdleTimeout ==
    /\ [](\A c \in Conns :
             sockStatus[c] = "connected" =>
                 sockTimeout[c] # 0 /\ now <= sockTimeout[c])
    /\ [][ LET c == last'.conn
           IN  /\ last'.op = "connection" =>
                     sockTimeout'[c] = now + SocketTimeout
               /\ \A k \in Conns :
                     (sockStatus[k] = "connected" /\ sockStatus'[k] = "connected")
                        => sockTimeout'[k] = sockTimeout[k]
               /\ last'.op = "socketTimeout" =>
                     /\ sockStatus[c] = "connected"
                     /\ now = sockTimeout[c]
                     /\ sockStatus'[c] = "disconnected"
                     /\ IF IsOccupant(c)
                        THEN LET id == sockRoomId[c]
                                 left == Occupants(id) \ {c}
                             IN  /\ OccupantsAfter(id) = left
                                 /\ emitted' =
                                      { LeftMsg(a, c, gameRooms[id].players[c],
                                                Cardinality(left)) : a \in left }
                                 /\ graceTimers' =
                                      IF left = {}
                                      THEN graceTimers \cup
                                           {[sock |-> c, due |-> now + GracePeriod]}
                                      ELSE graceTimers
                        ELSE emitted' = {} /\ gameRooms' = gameRooms ]_vars

\* a socket's timer fired while it shared a room: the other got playerLeft
C26_Witness ==
    /\ last.op = "socketTimeout"
    /\ \E m \in emitted : m.event = "playerLeft" /\ m.data.playersCount = 1

\* C27: a connected socket with a roomId occupies the registered room of
\* that id under the role recorded on the socket, and every occupant of a
\* registered room has that room's id as its roomId.
C27_RegistryConsistent ==
    /\ \A c \in Conns :
          (sockStatus[c] = "connected" /\ sockRoomId[c] # NoRoomId) =>
              /\ IsOccupant(c)
              /\ gameRooms[sockRoomId[c]].players[c] = sockPlayerType[c]
    /\ \A id \in DOMAIN gameRooms :
          \A c \in Occupants(id) : sockRoomId[c] = id

\* a connected socket occupies a room of which a disconnected socket, whose
\* roomId still names it, is no longer an occupant
C27_Witness ==
    \E c, d \in Conns :
        /\ sockStatus[c] = "connected"
        /\ IsOccupant(c)
        /\ sockStatus[d] = "disconnected"
        /\ sockRoomId[d] = sockRoomId[c]
        /\ ~IsOccupant(d)

(***************************************************************************)
(* Removal of empty rooms and the grace period.  leftAt[id] is the time    *)
(* the registered room id last lost an occupant: for an empty room, the    *)
(* time it became empty.                                                   *)
(***************************************************************************)
\* the rooms a step takes out of the room table
Removed == DOMAIN gameRooms \ DOMAIN gameRooms'

\* C28: a grace timer never removes a room sooner than the grace period
\* after the most recent moment the room became empty.
C28_GraceAfterLastEmptying ==
    [][ last'.op = "graceTimer" =>
            \A id \in Removed : now >= leftAt[id] + GracePeriod ]_vars

\* C29: the stale sweep never removes a room that became empty less than
\* the grace period ago.
C29_SweepAfterGrace ==
    [][ last'.op = "sweep" =>
            \A id \in Removed : now >= leftAt[id] + GracePeriod ]_vars

\* the room id is registered and has no occupant
EmptyRoom(id) == id \in DOMAIN gameRooms /\ Size(gameRooms[id]) = 0

\* C30: under fair firing of the timers, every registered room that is
\* empty is eventually removed from the room table or joined again,
\* whether it became empty by a disconnect or by its last occupant joining
\* another room.
C30_NoEmptyRoomLeaks ==
    /\ EmptyRoom(CleanRoomId(RawABC.s)) ~> ~EmptyRoom(CleanRoomId(RawABC.s))
    /\ EmptyRoom(CleanRoomId(RawABC1.s)) ~> ~EmptyRoom(CleanRoomId(RawABC1.s))

\* the sweep removed a room: one that its last occupant left by joining
\* another room, for which no timer was scheduled
C30_Witness ==
    /\ last.op = "sweep"
    /\ last.ok
    /\ graceTimers = {}

(***************************************************************************)
(* The rate limit over joins.                                              *)
(***************************************************************************)
\* the smallest distance of two forwarded events of a kind
Interval(kind) ==
    IF kind = "playerInput" THEN InputInterval ELSE PositionInterval

\* C31: two playerPosition messages forwarded from one socket to the same
\* socket carry timestamps at least 67 ms apart, and two playerInput
\* messages at least 50 ms apart, also when the sender left and joined a
\* room in between.
C31_RateCapTowardsPeer ==
    [][ (last'.op \in RateLimitedEvents /\ last'.conn \in Senders) =>
            \A m \in emitted' :
                LET before == sent[last'.conn][m.event][m.to]
                IN  before = 0 \/ m.data.timestamp - before >= Interval(m.event)
      ]_vars

(***************************************************************************)
(* Leaving a room that stays occupied.                                     *)
(***************************************************************************)
\* C32: when a step removes an occupant from a room and another occupant
\* remains, the remaining occupant is sent exactly one playerLeft message,
\* with the role that was vacated and the new number of players.
C32_PlayerLeftOnEveryLeave ==
    [][ \A id \in Kept : \A c \in Occupants(id) \ OccupantsAfter(id) :
            \A a \in OccupantsAfter(id) :
                { m \in emitted' : m.to = a /\ m.event = "playerLeft" } =
                    { LeftMsg(a, c, gameRooms[id].players[c],
                              Cardinality(OccupantsAfter(id))) } ]_vars

(***************************************************************************)
(* Joins that are refused or pass the full check.                          *)
(***************************************************************************)
\* the step is a joinRoom answered with roomFull
AnsweredRoomFull ==
    /\ last'.op = "joinRoom"
    /\ \E m \in emitted' : m.event = "roomFull"

\* C33: a joinRoom answered with roomFull changes no state: the room table
\* (rooms, occupants, roles, gameState, currentLevel, lastUpdate) is
\* unchanged, no timer is scheduled, and the caller keeps the room, the role
\* and the name recorded on its socket.
C33_RoomFullChangesNothing ==
    [][ AnsweredRoomFull =>
            /\ gameRooms' = gameRooms
            /\ graceTimers' = graceTimers
            /\ sockRoomId' = sockRoomId
            /\ sockPlayerType' = sockPlayerType
            /\ sockPlayerName' = sockPlayerName
            /\ sockStatus' = sockStatus ]_vars

\* an occupant of one room was answered roomFull for another, full room
C33_Witness ==
    /\ last.op = "joinRoom"
    /\ \E m \in emitted : m.event = "roomFull"
    /\ IsOccupant(last.conn)
    /\ \E id \in DOMAIN gameRooms :
          /\ id # sockRoomId[last.conn]
          /\ Cardinality(Occupants(id)) = 2

\* the role is held by no occupant of the room
FreeRole(room, role) == \A c \in DOMAIN room.players : room.players[c] # role

\* the room id a well-formed joinRoom of this step asks for
TargetId == CleanRoomId(last'.raw.roomId.s)

\* C34: a room with fewer than 2 occupants has a free role; and a joinRoom
\* with a valid room id and name is answered roomFull exactly when the room
\* of that id had 2 occupants: otherwise it passed the full check, and the
\* caller is added as an occupant (the assignment error branch is not taken).
C34_JoinPastFullCheckSucceeds ==
    /\ [](\A id \in DOMAIN gameRooms :
             Size(gameRooms[id]) < 2 =>
                 \E role \in {"fire", "water"} : FreeRole(gameRooms[id], role))
    /\ [][ (last'.op = "joinRoom" /\ last'.raw \in RoomJoinData) =>
              IF TargetId \in DOMAIN gameRooms /\ IsFull(gameRooms[TargetId])
              THEN AnsweredRoomFull
              ELSE /\ ~AnsweredRoomFull
                   /\ last'.ok
                   /\ last'.conn \in OccupantsAfter(TargetId)
                   /\ sockRoomId'[last'.conn] = TargetId ]_vars

\* a socket joined a room that held one occupant, after leaving another room
C34_Witness ==
    /\ last.op = "joinRoom"
    /\ last.ok
    /\ last.prev # NoRoomId
    /\ last.prev # sockRoomId[last.conn]
    /\ Cardinality(Occupants(sockRoomId[last.conn])) = 2

(***************************************************************************)
(* Traffic and the socket timer.  lastUpdate[c] of the room of an occupant *)
(* c, when it is not 0, is the time the server handled a playerInput or    *)
(* playerPosition event of c.                                              *)
(***************************************************************************)
\* C35: the socket timer disconnects idle sockets only: when it cuts off an
\* occupant of a room, the last playerInput event the server accepted from
\* that socket is at least 5 minutes old.
C35_TimeoutOnlyWhenIdle ==
    [][ (last'.op = "socketTimeout" /\ IsOccupant(last'.conn)) =>
            LET c == last'.conn
                heard == gameRooms[sockRoomId[c]].lastUpdate[c]
            IN  heard = 0 \/ now - heard >= SocketTimeout ]_vars

(***************************************************************************)
(* The display name.                                                       *)
(***************************************************************************)
\* C36: a joinRoom that succeeded recorded on the socket, and reported in
\* its messages, a name of 1 to 20 characters; and a joinRoom whose name is
\* a string that is empty after trimming did not succeed and was answered
\* with an error.
C36_NameNotBlank ==
    last.op = "joinRoom" =>
        LET c == last.conn
        IN  /\ last.ok =>
                /\ Len(sockPlayerName[c]) >= 1
                /\ Len(sockPlayerName[c]) <= MaxNameLen
                /\ \A m \in emitted : m.data.playerName = sockPlayerName[c]
            /\ ( /\ last.raw.t = "object"
                 /\ last.raw.playerName.t = "string"
                 /\ Trim(last.raw.playerName.s) = << >> ) =>
                    /\ ~last.ok
                    /\ \E m \in emitted : emitted = {m} /\ m.to = c /\ m.event = "error"

====
